---- MODULE Spec2Model ----
(***************************************************************************)
(* Model of github_canvas_grader.py: the command line program that reads   *)
(* the latest GitHub Actions run of every assignment repository and posts  *)
(* a grade to Canvas, and its rerun-trigger mode.                          *)
(*                                                                         *)
(* Strings are sequences of one-character strings, so that substring       *)
(* tests, split/join and lower() are computed and not assumed.  Grades     *)
(* and multipliers are floats in the program; here they are integers in    *)
(* hundredths (1.0 is 100).  A datetime is a record of day, hour, minute   *)
(* and second inside one month of one year, in one time zone.              *)
(***************************************************************************)
EXTENDS Integers, Sequences, FiniteSets, TLC

\* ---------------------------------------------------------------- bounds
\* Longest organisation listing filter_repos is given.
MaxRepos == 2
\* Longest list of workflow runs the Actions API returns for a repository.
MaxRuns == 2

\* ------------------------------------------------------- string helpers
\* str.lower() on one character, for the upper-case letters used here.
LowerChar(c) ==
    CASE c = "A" -> "a"
      [] c = "B" -> "b"
      [] c = "C" -> "c"
      [] c = "E" -> "e"
      [] OTHER   -> c

\* str.lower()
Lower(s) == [i \in 1..Len(s) |-> LowerChar(s[i])]

\* `sub in s` for Python strings: sub occurs contiguously in s.
Contains(sub, s) ==
    \E k \in 0..(Len(s) - Len(sub)) :
        \A j \in 1..Len(sub) : s[k + j] = sub[j]

\* s.split('-'): the pieces between hyphens (always at least one piece).
RECURSIVE SplitHyphen(_)
SplitHyphen(s) ==
    IF \A i \in 1..Len(s) : s[i] # "-"
    THEN <<s>>
    ELSE LET k == CHOOSE i \in 1..Len(s) :
                      s[i] = "-" /\ \A j \in 1..(i - 1) : s[j] # "-"
         IN  <<SubSeq(s, 1, k - 1)>> \o SplitHyphen(SubSeq(s, k + 1, Len(s)))

\* '-'.join(parts)
RECURSIVE JoinHyphen(_)
JoinHyphen(parts) ==
    IF Len(parts) = 0 THEN <<>>
    ELSE IF Len(parts) = 1 THEN parts[1]
    ELSE parts[1] \o <<"-">> \o JoinHyphen(Tail(parts))

\* strip_github_username(repo)
strip_github_username(repo) == Lower(JoinHyphen(Tail(SplitHyphen(repo))))

\* ------------------------------------------------------------ datetimes
\* Seconds from the start of the month to datetime t.
ToSeconds(t) == ((t.day * 24 + t.hour) * 60 + t.minute) * 60 + t.second

\* The sign used by relativedelta._fix (copysign(1, x)).
Sign(x) == IF x < 0 THEN 0 - 1 ELSE 1

\* dateutil.relativedelta.relativedelta(dt1, dt2) for two datetimes of the
\* same month: no whole month lies between them, the difference is put in
\* seconds and _fix() carries it into minutes, hours and days.
relativedelta(dt1, dt2) ==
    LET delta == ToSeconds(dt1) - ToSeconds(dt2)
        s     == Sign(delta)
        secs  == IF s * delta > 59 THEN s * ((s * delta) % 60) ELSE delta
        min0  == IF s * delta > 59 THEN s * ((s * delta) \div 60) ELSE 0
        mins  == IF s * min0 > 59 THEN s * ((s * min0) % 60) ELSE min0
        hr0   == IF s * min0 > 59 THEN s * ((s * min0) \div 60) ELSE 0
        hrs   == IF s * hr0 > 23 THEN s * ((s * hr0) % 24) ELSE hr0
        dys   == IF s * hr0 > 23 THEN s * ((s * hr0) \div 24) ELSE 0
    IN  [days |-> dys, hours |-> hrs, minutes |-> mins, seconds |-> secs]

\* The default comparison_operator of score_multiplier: lambda a,b: a <= b.
comparison_operator(a, b) == a <= b

\* The test of score_multiplier on the three components of rel_time.
ComponentTest(rel_time) ==
    /\ comparison_operator(rel_time.hours, 0)
    /\ comparison_operator(rel_time.minutes, 0)
    /\ comparison_operator(rel_time.seconds, 0)

\* 1.0 in hundredths.
One == 100

\* score_multiplier(args, commit_time)
score_multiplier(a, commit_time) ==
    IF a.due
    THEN IF ComponentTest(relativedelta(commit_time, a.due_time))
         THEN a.multiplier
         ELSE One
    ELSE One

\* ------------------------------------------------------ GitHub Actions
\* The workflow_filename default of every reader: 'main.yml', here "m","y".
workflow_filename == <<"m", "y">>

\* A missing datetime (commit_time is None).
NoTime == [day |-> 0, hour |-> 0, minute |-> 0, second |-> 0]

\* get_latest_workflow_run with a fallback to the newest run when no run
\* name contains the workflow name.
get_latest_workflow_run_fallback(runs, wf) ==
    IF Len(runs) = 0
    THEN 0
    ELSE IF \E i \in 1..Len(runs) : Contains(wf, runs[i].name)
         THEN CHOOSE i \in 1..Len(runs) :
                  /\ Contains(wf, runs[i].name)
                  /\ \A j \in 1..(i - 1) : ~Contains(wf, runs[j].name)
         ELSE 1

\* get_latest_workflow_run(api, repo, workflow_filename): the position in
\* runs['workflow_runs'] of the run returned, 0 when the function returns
\* None (total_count is 0, or the loop ends without a match).
get_latest_workflow_run(runs, wf) ==
    IF Len(runs) = 0
    THEN 0
    ELSE IF \E i \in 1..Len(runs) : Contains(wf, runs[i].name)
         THEN CHOOSE i \in 1..Len(runs) :
                  /\ Contains(wf, runs[i].name)
                  /\ \A j \in 1..(i - 1) : ~Contains(wf, runs[j].name)
         ELSE 0

\* get_latest_workflow_commit_time_and_conclusion(api, repo, workflow_filename)
get_latest_workflow_commit_time_and_conclusion(runs, wf) ==
    LET run == get_latest_workflow_run(runs, wf)
    IN  IF run = 0
        THEN [commit_time |-> NoTime, conclusion |-> "None"]
        ELSE [commit_time |-> runs[run].timestamp,
              conclusion  |-> runs[run].conclusion]

\* filter_repos(api, org, filter_string) on the names the organisation lists.
RECURSIVE filter_repos(_, _)
filter_repos(listing, filter_string) ==
    IF Len(listing) = 0 THEN <<>>
    ELSE IF Contains(filter_string, Head(listing))
         THEN <<Head(listing)>> \o filter_repos(Tail(listing), filter_string)
         ELSE filter_repos(Tail(listing), filter_string)

\* --------------------------------------------------------- identity map
\* df[column].apply(lambda s: s.lower()) on both columns, then
\* set_index(['Github Username']): the rows of the DataFrame.
LowerRows(rows) ==
    [i \in 1..Len(rows) |->
        [EID |-> Lower(rows[i].EID),
         Github_Username |-> Lower(rows[i].Github_Username)]]

\* The value read_username_map returns when it returns None.
NoMap == [present |-> FALSE, rows |-> <<>>]

\* username_map_from_google_sheet(creditials, classname): sheet is what the
\* decoding, the authentication and the opening of the sheet come to, an
\* exception name or "ok" with the records of the first worksheet.
username_map_from_google_sheet(sheet) ==
    IF sheet.raises = "ok"
    THEN [raises |-> "ok",
          value  |-> [present |-> TRUE, rows |-> LowerRows(sheet.rows)]]
    ELSE [raises |-> sheet.raises, value |-> NoMap]

\* The except clause of read_username_map: `except ValueError`.
\* (binascii.Error and json.JSONDecodeError are ValueErrors.)
read_username_map_catches(exc) ==
    exc \in {"ValueError", "binascii.Error", "JSONDecodeError"}

\* read_username_map(creditials, classname): the exception that leaves the
\* function ("ok" when none), the value returned and what is printed.
read_username_map(file_exists, csv_rows, has_creditials, has_classname, sheet) ==
    IF file_exists
    THEN [raises |-> "ok",
          value  |-> [present |-> TRUE, rows |-> LowerRows(csv_rows)],
          out    |-> <<>>]
    ELSE IF has_creditials /\ has_classname
         THEN LET r == username_map_from_google_sheet(sheet)
              IN  IF r.raises = "ok"
                  THEN [raises |-> "ok", value |-> r.value, out |-> <<>>]
                  ELSE IF read_username_map_catches(r.raises)
                       THEN [raises |-> "ok", value |-> NoMap,
                             out |-> <<"Error reading Google Sheet">>]
                       ELSE [raises |-> r.raises, value |-> NoMap, out |-> <<>>]
         ELSE [raises |-> "ok", value |-> NoMap,
               out |-> <<"You must specify a username map">>]

\* The lookup with a default in place of the KeyError: a handle that is no
\* key of the map gets the EID of its first row.
loc_EID_default(map, github_username) ==
    IF ~map.present
    THEN [raises |-> "AttributeError", eid |-> <<>>]
    ELSE IF \E i \in 1..Len(map.rows) :
                map.rows[i].Github_Username = github_username
         THEN [raises |-> "ok",
               eid |-> map.rows[CHOOSE i \in 1..Len(map.rows) :
                           map.rows[i].Github_Username = github_username].EID]
         ELSE [raises |-> "ok", eid |-> map.rows[1].EID]

\* username_map.loc[github_username, "EID"]: the exception raised ("ok"
\* when none) and the EID found.
loc_EID(map, github_username) ==
    IF ~map.present
    THEN [raises |-> "AttributeError", eid |-> <<>>]
    ELSE IF \E i \in 1..Len(map.rows) :
                map.rows[i].Github_Username = github_username
         THEN [raises |-> "ok",
               eid |-> map.rows[CHOOSE i \in 1..Len(map.rows) :
                           map.rows[i].Github_Username = github_username].EID]
         ELSE [raises |-> "KeyError", eid |-> <<>>]

\* ---------------------------------------------------------------- Canvas
\* get_assignment_id(course, assignment_name): the id returned, 0 for None.
get_assignment_id(assignments, assignment_name) ==
    IF \E i \in 1..Len(assignments) : assignments[i].name = assignment_name
    THEN assignments[CHOOSE i \in 1..Len(assignments) :
             /\ assignments[i].name = assignment_name
             /\ \A j \in 1..(i - 1) : assignments[j].name # assignment_name].id
    ELSE 0

\* The score lines with the late multiplier applied to a failure as well.
score_of_failure_scaled(conclusion, multiplier, old) ==
    IF conclusion = "success"
    THEN [bound |-> TRUE, val |-> 1 * multiplier]
    ELSE IF conclusion = "failure"
         THEN [bound |-> TRUE, val |-> 1 * multiplier]
         ELSE old

\* The lines of the grading loop that set score from conclusion; score is
\* left as it was when conclusion is neither 'success' nor 'failure'.
score_of(conclusion, multiplier, old) ==
    IF conclusion = "success"
    THEN [bound |-> TRUE, val |-> 1 * multiplier]
    ELSE IF conclusion = "failure"
         THEN [bound |-> TRUE, val |-> 0]
         ELSE old

\* An except clause that names the lookup's KeyError only.
except_catches_KeyError(exc) == exc = "KeyError"

\* The bare `except:` of the grading loop.
except_catches(exc) == TRUE

\* course.get_assignment(id) raises when get_assignment_id returned None:
\* canvasapi turns the id with int(), and int(None) is a TypeError.  The call
\* stands before the try statement of the loop.
get_assignment_raises(assignment_id) == assignment_id = 0

\* The try block of the grading loop for one repository.  fault names the
\* first Canvas call that fails ("none" when all succeed); logins are the
\* sis_login_ids the course knows.  Gives the exception raised ("ok" when
\* none), the lookups and Canvas calls made, the new value of score,
\* whether the block assigned score, and what is printed.
try_block(map, github_username, conclusion, multiplier, old, fault, logins) ==
    LET l  == loc_EID(map, github_username)
        sc == score_of(conclusion, multiplier, old)
        as == conclusion \in {"success", "failure"}
    IN  IF l.raises # "ok"
        THEN [raises |-> l.raises, calls |-> <<"loc">>, score |-> old,
              assigned |-> FALSE, out |-> <<>>]
        ELSE IF fault = "get_user" \/ l.eid \notin logins
        THEN [raises |-> "CanvasException", calls |-> <<"loc", "get_user">>,
              score |-> old, assigned |-> FALSE, out |-> <<>>]
        ELSE IF fault = "get_submission"
        THEN [raises |-> "CanvasException",
              calls |-> <<"loc", "get_user", "get_submission">>,
              score |-> old, assigned |-> FALSE, out |-> <<>>]
        ELSE IF ~sc.bound
        THEN [raises |-> "NameError",
              calls |-> <<"loc", "get_user", "get_submission">>,
              score |-> sc, assigned |-> as, out |-> <<>>]
        ELSE IF fault = "edit"
        THEN [raises |-> "CanvasException",
              calls |-> <<"loc", "get_user", "get_submission", "edit">>,
              score |-> sc, assigned |-> as, out |-> <<>>]
        ELSE [raises |-> "ok",
              calls |-> <<"loc", "get_user", "get_submission", "edit">>,
              score |-> sc, assigned |-> as, out |-> <<"Updated grade">>]

\* ---------------------------------------------------------------- inputs
\* The assignment name of the command line ("h1").
AssignmentName == <<"h", "1">>

\* Names of the repositories an organisation may list.
RepoNames ==
    { <<"h", "1", "-", "a">>,
      <<"h", "1", "-", "A", "-", "b">>,
      <<"h", "1", "-", "b">>,
      <<"x", "1", "-", "a">> }

\* The due time of the command line.
DueTime == [day |-> 15, hour |-> 23, minute |-> 59, second |-> 0]

\* <MULTIPLIER> values, in hundredths.
Multipliers == {0, 50}

\* The command lines: rerun-trigger mode, grading without and with --due.
ArgsSet ==
    { [trigger |-> t, due |-> FALSE, due_time |-> NoTime, multiplier |-> 0,
       assignment_name |-> AssignmentName] : t \in BOOLEAN }
    \cup
    { [trigger |-> FALSE, due |-> TRUE, due_time |-> DueTime,
       multiplier |-> m, assignment_name |-> AssignmentName] :
         m \in Multipliers }

\* The assignments of the Canvas course: with and without one named "h1".
CourseAssignments ==
    { << [name |-> <<"h", "2">>, id |-> 7] >>,
      << [name |-> <<"h", "2">>, id |-> 7], [name |-> AssignmentName, id |-> 8] >> }

\* The sis_login_ids of the Canvas course.
CourseLogins == { <<"e", "1">>, <<"e", "2">> }

\* Contents of username_map.csv or of the Google sheet, as written there.
Tables ==
    { << [EID |-> <<"E", "1">>, Github_Username |-> <<"A">>] >>,
      << [EID |-> <<"e", "1">>, Github_Username |-> <<"a">>],
         [EID |-> <<"E", "2">>, Github_Username |-> <<"A", "-", "b">>],
         [EID |-> <<"e", "3">>, Github_Username |-> <<"b">>] >> }

\* What reading the Google sheet comes to: its records, a malformed
\* credential token, or a network or permission error of the service.
SheetOutcomes ==
    { [raises |-> "ok", rows |-> t] : t \in Tables }
    \cup
    { [raises |-> e, rows |-> <<>>] :
        e \in {"binascii.Error", "APIError", "TransportError"} }

\* Workflow runs the Actions API may report: successes an hour early and
\* exactly one day late, a failure six minutes late, a cancelled run, and a
\* run of another workflow.
RunPool ==
    { [id |-> 1, name |-> <<"m", "y">>, conclusion |-> "success",
       timestamp |-> [day |-> 15, hour |-> 22, minute |-> 59, second |-> 0]],
      [id |-> 2, name |-> <<"m", "y">>, conclusion |-> "success",
       timestamp |-> [day |-> 16, hour |-> 23, minute |-> 59, second |-> 0]],
      [id |-> 3, name |-> <<"C", " ", "m", "y">>, conclusion |-> "failure",
       timestamp |-> [day |-> 16, hour |-> 0, minute |-> 5, second |-> 0]],
      [id |-> 4, name |-> <<"m", "y">>, conclusion |-> "cancelled",
       timestamp |-> DueTime],
      [id |-> 5, name |-> <<"m", "l", "y">>, conclusion |-> "success",
       timestamp |-> DueTime] }

\* Sequences over S of length at most n.
SeqUpTo(S, n) == UNION { [1..k -> S] : k \in 0..n }

\* The run lists of a repository, with and without a run of the workflow.
RunLists == SeqUpTo(RunPool, MaxRuns)
RunsWith ==
    { runs \in RunLists :
        \E k \in 1..Len(runs) : Contains(workflow_filename, runs[k].name) }
RunsWithout == RunLists \ RunsWith

\* The listings of an organisation: repository names are unique in it.
OrgListings ==
    { l \in SeqUpTo(RepoNames, MaxRepos) :
        \A i, j \in 1..Len(l) : i # j => l[i] # l[j] }

Faults == {"none", "get_user", "get_submission", "edit"}

\* ----------------------------------------------------------------- state
VARIABLES
    args,             \* the parsed command line
    assignments,      \* the assignments of the Canvas course
    pc,               \* where the program is
    username_map,     \* the value read_username_map returned
    repos,            \* the list filter_repos returned
    idx,              \* position in repos of the repository that is next
    score,            \* the module-level variable score of the grading loop
    score_from,       \* position of the repository score was last set for
    cur,              \* the repository handled last and what came of it
    calls,            \* the lookups and Canvas calls made by the last step
    out,              \* what the last step printed
    failed,           \* positions of the repositories whose try block raised
    graded,           \* positions of the repositories a grade was posted for
    rerun,            \* positions of the repositories a re-run was requested for
    with_run,         \* positions of the repositories that have a run whose
                      \* name contains the workflow name
    commit_time,      \* the variable commit_time of the grading loop
    conclusion        \* the variable conclusion of the grading loop

vars == <<args, assignments, pc, username_map, repos, idx, score, score_from,
          cur, calls, out, failed, graded, rerun, with_run, commit_time,
          conclusion>>

NoScore == [bound |-> FALSE, val |-> 0]

NoCur == [index |-> 0, total_count |-> 0, matched |-> FALSE,
          conclusion |-> "None", commit_time |-> NoTime,
          assignment_id |-> 0, stage |-> "none", raised |-> "ok", grade |-> 0]

Init ==
    /\ args \in ArgsSet
    /\ assignments \in CourseAssignments
    /\ pc = "start"
    /\ username_map = NoMap
    /\ repos = <<>>
    /\ idx = 1
    /\ score = NoScore
    /\ score_from = 0
    /\ cur = NoCur
    /\ calls = <<>>
    /\ out = <<>>
    /\ failed = {}
    /\ graded = {}
    /\ rerun = {}
    /\ with_run = {}
    /\ commit_time = NoTime
    /\ conclusion = "None"

\* __main__, username_map = read_username_map(os.environ[...], org): both
\* arguments are strings there.  An exception leaving it ends the program.
ReadUsernameMap ==
    /\ pc = "start"
    /\ ~args.trigger
    /\ \E file_exists \in BOOLEAN, csv_rows \in Tables, sheet \in SheetOutcomes :
         LET r == read_username_map(file_exists, csv_rows, TRUE, TRUE, sheet)
         IN  /\ username_map' = r.value
             /\ out' = r.out
             /\ cur' = [cur EXCEPT
                           !.stage = IF file_exists THEN "csv"
                                     ELSE IF sheet.raises = "ok" THEN "sheet"
                                     ELSE sheet.raises,
                           !.raised = r.raises]
             /\ pc' = IF r.raises = "ok" THEN "discover" ELSE "crashed"
    /\ calls' = <<>>
    /\ UNCHANGED <<args, assignments, repos, idx, score, score_from,
                   failed, graded, rerun, with_run, commit_time,
                   conclusion>>

\* The run lists the Actions API can report for repos[i]: those that agree
\* with with_run on whether a run of the workflow exists.
RunsOf(i) == IF i \in with_run THEN RunsWith ELSE RunsWithout

\* __main__, repos = filter_repos(...) and the printing of the list found.
FilterRepos ==
    /\ pc = "discover"
    /\ \E listing \in OrgListings :
         /\ repos' = filter_repos(listing, args.assignment_name)
         /\ with_run' \in SUBSET (1..Len(repos'))
    /\ idx' = 1
    /\ pc' = "loop"
    /\ out' = <<"Grading", "Found repos">>
    /\ calls' = <<>>
    /\ UNCHANGED <<args, assignments, username_map, score, score_from, cur,
                   failed, graded, rerun, commit_time,
                   conclusion>>

\* The head of one pass of `for repo in repos:` of __main__, for repos[idx]:
\* commit_time, conclusion = get_latest_workflow_commit_time_and_conclusion(...)
FetchRun ==
    /\ pc = "loop"
    /\ idx <= Len(repos)
    /\ \E runs \in RunsOf(idx) :
         LET r == get_latest_workflow_commit_time_and_conclusion(
                      runs, workflow_filename)
         IN  /\ commit_time' = r.commit_time
             /\ conclusion' = r.conclusion
             /\ cur' = [NoCur EXCEPT
                           !.index = idx,
                           !.total_count = Len(runs),
                           !.matched = idx \in with_run,
                           !.conclusion = r.conclusion,
                           !.commit_time = r.commit_time,
                           !.stage = "fetched"]
    /\ pc' = "body"
    /\ calls' = <<>>
    /\ out' = <<>>
    /\ UNCHANGED <<args, assignments, username_map, repos, idx, score,
                   score_from, failed, graded, rerun, with_run>>

\* The rest of the pass, from `if conclusion is not None:` to its end.
GradeRepo ==
    /\ pc = "body"
    /\ \E fault \in Faults :
         IF conclusion # "None"
         THEN LET github_username == strip_github_username(repos[idx])
                  multiplier == score_multiplier(args, commit_time)
                  aid == get_assignment_id(assignments, args.assignment_name)
                  msg == IF aid = 0 THEN <<"No assignment id">> ELSE <<>>
                  t   == try_block(username_map, github_username,
                                   conclusion, multiplier, score, fault,
                                   CourseLogins)
              IN  IF get_assignment_raises(aid)
                  THEN /\ pc' = "crashed"
                       /\ cur' = [cur EXCEPT !.stage = "get_assignment",
                                             !.raised = "TypeError"]
                       /\ calls' = <<"get_assignments", "get_assignment">>
                       /\ out' = msg
                       /\ UNCHANGED <<idx, score, score_from, failed, graded>>
                  ELSE /\ cur' = [cur EXCEPT
                              !.assignment_id = aid,
                              !.stage = IF t.raises = "ok" THEN "posted"
                                        ELSE "raised",
                              !.raised = t.raises,
                              !.grade = IF t.raises = "ok" THEN t.score.val
                                        ELSE 0]
                       /\ calls' = <<"get_assignments", "get_assignment">>
                                   \o t.calls
                       /\ out' = msg \o t.out
                       /\ score' = t.score
                       /\ score_from' = IF t.assigned THEN idx ELSE score_from
                       /\ graded' = IF t.raises = "ok"
                                    THEN graded \cup {idx} ELSE graded
                       /\ failed' = IF t.raises # "ok"
                                    THEN failed \cup {idx} ELSE failed
                       /\ IF t.raises = "ok" \/ except_catches(t.raises)
                          THEN pc' = "loop" /\ idx' = idx + 1
                          ELSE pc' = "crashed" /\ idx' = idx
         ELSE /\ cur' = [cur EXCEPT !.stage = "absent"]
              /\ calls' = <<>>
              /\ out' = <<"No workflow runs for">>
              /\ pc' = "loop"
              /\ idx' = idx + 1
              /\ UNCHANGED <<score, score_from, failed, graded>>
    /\ UNCHANGED <<args, assignments, username_map, repos, rerun, with_run,
                   commit_time, conclusion>>

\* The grading loop has gone through repos: the program ends.
LoopEnd ==
    /\ pc = "loop"
    /\ idx > Len(repos)
    /\ pc' = "done"
    /\ calls' = <<>>
    /\ out' = <<>>
    /\ UNCHANGED <<args, assignments, username_map, repos, idx, score,
                   score_from, cur, failed, graded, rerun, with_run, commit_time,
                   conclusion>>

\* rerun_all_worflows_for_assignment, repos = filter_repos(...).
RerunFilter ==
    /\ pc = "start"
    /\ args.trigger
    /\ \E listing \in OrgListings :
         /\ repos' = filter_repos(listing, args.assignment_name)
         /\ with_run' \in SUBSET (1..Len(repos'))
    /\ idx' = 1
    /\ pc' = "rerun"
    /\ calls' = <<>>
    /\ out' = <<>>
    /\ UNCHANGED <<args, assignments, username_map, score, score_from, cur,
                   failed, graded, rerun, commit_time,
                   conclusion>>

\* rerun_latest_workflow(api, repo) for repos[idx]: subscripting the None
\* that get_latest_workflow_run returns is a TypeError outside the try
\* statement; a failure of the re-run request itself is passed over.
RerunLatest ==
    /\ pc = "rerun"
    /\ idx <= Len(repos)
    /\ \E runs \in RunsOf(idx), request_ok \in BOOLEAN :
         LET run  == get_latest_workflow_run(runs, workflow_filename)
             here == [NoCur EXCEPT
                         !.index = idx,
                         !.total_count = Len(runs),
                         !.matched = idx \in with_run]
         IN  IF run = 0
             THEN /\ pc' = "crashed"
                  /\ cur' = [here EXCEPT !.stage = "get_latest_workflow_run",
                                         !.raised = "TypeError"]
                  /\ UNCHANGED <<idx, rerun>>
             ELSE /\ pc' = "rerun"
                  /\ idx' = idx + 1
                  /\ rerun' = rerun \cup {idx}
                  /\ cur' = [here EXCEPT
                                !.stage = "re_run_workflow",
                                !.conclusion = runs[run].conclusion,
                                !.raised = IF request_ok THEN "ok"
                                           ELSE "HTTPError"]
    /\ calls' = <<>>
    /\ out' = <<>>
    /\ UNCHANGED <<args, assignments, username_map, repos, score, score_from,
                   failed, graded, with_run, commit_time,
                   conclusion>>

\* __main__, exit() after rerun_all_worflows_for_assignment returned.
RerunExit ==
    /\ pc = "rerun"
    /\ idx > Len(repos)
    /\ pc' = "exited"
    /\ calls' = <<>>
    /\ out' = <<>>
    /\ UNCHANGED <<args, assignments, username_map, repos, idx, score,
                   score_from, cur, failed, graded, rerun, with_run, commit_time,
                   conclusion>>

Next ==
    \/ ReadUsernameMap
    \/ FilterRepos
    \/ FetchRun
    \/ GradeRepo
    \/ LoopEnd
    \/ RerunFilter
    \/ RerunLatest
    \/ RerunExit

Spec == Init /\ [][Next]_vars

\* ---------------------------------------------------------------- claims
\* The owner-handle of repos[i] is a key of the identity mapping.
HandleMapped(i) ==
    /\ username_map.present
    /\ \E k \in 1..Len(username_map.rows) :
         username_map.rows[k].Github_Username = strip_github_username(repos[i])

\* The owner-handle of repos[i] is mapped to a login the course knows.
HandleResolves(i) ==
    /\ username_map.present
    /\ \E k \in 1..Len(username_map.rows) :
         /\ username_map.rows[k].Github_Username = strip_github_username(repos[i])
         /\ username_map.rows[k].EID \in CourseLogins

\* The last step was a pass of the grading loop that reached its try block.
TriedLast == ~args.trigger /\ cur.index > 0 /\ cur.stage \in {"posted", "raised"}

\* C1: a failure in the submission steps of one repository (owner-handle not
\* in the identity mapping, user lookup, fetching the submission, posting
\* the grade) is confined to it: the pass ends with the loop at the next
\* repository, the program does not end on it, every repository whose try
\* block raised has been passed, and the loop ends past the end of the list.
C1_FailureConfined ==
    /\ (~args.trigger /\ cur.index > 0 /\ cur.stage = "raised")
          => (pc \in {"loop", "done"} /\ idx = cur.index + 1)
    /\ \A i \in failed : i < idx
    /\ pc = "done" => idx = Len(repos) + 1

\* C1 witness: the run has ended, some repository's try block raised and a
\* later repository was graded.
C1_Witness ==
    /\ pc = "done"
    /\ \E i \in failed : \E j \in graded : i < j

\* C3: a repository with zero runs, or with runs none of whose names
\* contains the workflow name, is skipped: no identity lookup, no Canvas
\* call, no grade, only the 'no workflow runs' message.
C3_AbsentSkipped ==
    (/\ ~args.trigger
     /\ pc = "loop"
     /\ cur.index > 0
     /\ (cur.total_count = 0 \/ ~cur.matched))
       => /\ cur.stage = "absent"
          /\ calls = <<>>
          /\ out = <<"No workflow runs for">>
          /\ cur.index \notin graded
          /\ cur.index \notin failed
          /\ score_from # cur.index

\* C3 witness: a repository that has runs, none of the workflow, was skipped.
C3_Witness ==
    /\ ~args.trigger
    /\ pc = "loop"
    /\ cur.stage = "absent"
    /\ cur.total_count > 0
    /\ ~cur.matched

\* C4: a posted grade is 0 when the run concluded 'failure', whatever the
\* due-date configuration, and 1.0 when it concluded 'success' and no
\* due-date configuration was given.
C4_PostedGrade ==
    (~args.trigger /\ cur.stage = "posted")
       => /\ cur.conclusion = "failure" => cur.grade = 0
          /\ (cur.conclusion = "success" /\ ~args.due) => cur.grade = One

\* C4 witness: a grade was posted for a failure under a due-date
\* configuration with a multiplier that is not 0.
C4_Witness ==
    /\ cur.stage = "posted"
    /\ cur.conclusion = "failure"
    /\ args.due
    /\ args.multiplier > 0

\* C5: a grade is posted only for a repository whose owner-handle is a key
\* of the identity mapping, with an EID the course resolves; when the handle
\* is missing or there is no mapping, no submission call is made, nothing is
\* posted, and the loop goes on to the next repository.
C5_IdentityResolution ==
    /\ (~args.trigger /\ cur.stage = "posted") => HandleResolves(cur.index)
    /\ \A i \in graded : HandleResolves(i)
    /\ (TriedLast /\ ~HandleMapped(cur.index))
          => /\ cur.stage = "raised"
             /\ cur.raised \in {"KeyError", "AttributeError"}
             /\ cur.index \notin graded
             /\ pc \in {"loop", "done"}
             /\ idx = cur.index + 1
             /\ pc = "loop" => calls = <<"get_assignments", "get_assignment", "loc">>

\* C5 witness: a grade was posted for a repository that comes after one
\* whose owner-handle is no key of the identity mapping.
C5_Witness ==
    /\ ~args.trigger
    /\ cur.stage = "posted"
    /\ \E i \in failed : i < cur.index /\ username_map.present /\ ~HandleMapped(i)

\* The commit of the last pass is on time by the component-wise test.
OnTimeByComponents ==
    ComponentTest(relativedelta(cur.commit_time, args.due_time))

\* C2: with a due-date configuration, the grade posted for a 'success' is
\* 1.0 when the hour, minute and second components of commit - due all
\* satisfy a <= 0 (on time), and the configured multiplier otherwise (late).
C2_LatePenalty ==
    (~args.trigger /\ cur.stage = "posted" /\ cur.conclusion = "success"
       /\ args.due)
       => cur.grade = IF OnTimeByComponents THEN One ELSE args.multiplier

\* C6: when no assignment of the course has the name of the command line,
\* the grading loop does not end the program: it goes on over the
\* repositories that remain.
C6_MissingAssignmentIsolated ==
    (/\ ~args.trigger
     /\ cur.index > 0
     /\ get_assignment_id(assignments, args.assignment_name) = 0)
       => pc # "crashed"

\* C7: a network or permission error of the spreadsheet service is caught
\* in read_username_map: the program goes on to list the repositories, with
\* no identity mapping.
C7_SheetErrorCaught ==
    (~args.trigger /\ cur.index = 0 /\ cur.stage \in {"APIError", "TransportError"})
       => (pc # "crashed" /\ ~username_map.present)

\* C8: in rerun-trigger mode, when the program has ended, a re-run has been
\* requested for every listed repository that has a run of the workflow,
\* and no Canvas call was made.
C8_RerunEveryRepository ==
    (args.trigger /\ pc \in {"exited", "crashed"})
       => (with_run \subseteq rerun /\ calls = <<>> /\ graded = {})

\* C9: a posted grade is the score set in the pass of the repository it is
\* posted for, never one set for an earlier repository.
C9_NoCarriedScore ==
    (~args.trigger /\ cur.stage = "posted") => score_from = cur.index

\* C10: with a due-date configuration, the component-wise test of
\* score_multiplier (hours <= 0, minutes <= 0 and seconds <= 0 of
\* commit - due) holds exactly when commit <= due.
C10_ComponentTestIsOrder ==
    (/\ ~args.trigger
     /\ args.due
     /\ cur.index > 0
     /\ cur.stage \in {"posted", "raised"})
       => (OnTimeByComponents
             <=> ToSeconds(cur.commit_time) <= ToSeconds(args.due_time))

====
